---- MODULE Spec2Model ----
(***************************************************************************)
(* A model of sedumi_writer.py: check_eliminatibility, the two passes of   *)
(* simplify_sedumi_model, and make_sedumi_format_problem with its          *)
(* problem_data_prep.                                                      *)
(*                                                                         *)
(* Numbers are exact rationals <<num, den>> (den > 0, lowest terms), the   *)
(* exact-arithmetic reading of the float arrays the code works on.         *)
(* Arrays are 0-indexed functions, as in the source; a matrix is a         *)
(* function from row index to row.  Python's None is the value None.       *)
(***************************************************************************)
EXTENDS Integers, Sequences, FiniteSets

VARIABLES
  \* ---- a call of check_eliminatibility
  g, h, n_elig, g_allow, g_ret, g_pc,
  \* ---- a call of simplify_sedumi_model (and a second call on its result)
  A, b, c, K, allow_nonzero_b,     \* the caller's array objects and arguments
  offset, ctr_k,                   \* locals of Pass 1
  cols_to_keep, rows_to_keep, n_deleted_f, n_deleted_l,   \* locals of Pass 2
  pc,                              \* position in the function
  ret,                             \* <<the returned tuple>>, <<>> before return
  arg,                             \* the values of A, b, c, K when the call was made
  elim,                            \* the (ctr_k, i) pairs Pass 1 has eliminated
  call, first,                     \* which call this is, and the first call's ret
  \* ---- a call of make_sedumi_format_problem
  problem_data, simplify, A_star, b_star, c_star, K_star, obj_cst,
  m_pc, m_ret, pd0

elimVars == <<g, h, n_elig, g_allow, g_ret, g_pc>>
simpVars == <<A, b, c, K, allow_nonzero_b, offset, ctr_k, cols_to_keep,
              rows_to_keep, n_deleted_f, n_deleted_l, pc, ret, arg, elim,
              call, first>>
makeVars == <<problem_data, simplify, A_star, b_star, c_star, K_star,
              obj_cst, m_pc, m_ret, pd0>>
vars == <<elimVars, simpVars, makeVars>>

\* ------------------------------------------------------------------ bounds
MaxRows == 2      \* constraint rows of a ConicProblem
MaxCols == 2      \* variables of a ConicProblem
MaxCoef == 2      \* entries of A are drawn from 0..MaxCoef
MaxRhs == 1       \* entries of b are drawn from 0..MaxRhs
MaxCost == 1      \* entries of c are drawn from -MaxCost..MaxCost
MaxLen == 4       \* length of a row handed to check_eliminatibility alone

None == -1

\* ------------------------------------------------------- exact arithmetic
Abs(x) == IF x < 0 THEN -x ELSE x

RECURSIVE GCD(_, _)
GCD(x, y) == IF y = 0 THEN x ELSE GCD(y, x % y)

Rat(n, d) ==
  LET s == IF d < 0 THEN -1 ELSE 1
      q == GCD(Abs(n), Abs(d))
  IN  <<(s * n) \div q, (s * d) \div q>>

ToReal(n) == <<n, 1>>
Zero == ToReal(0)
RAdd(x, y) == Rat(x[1] * y[2] + y[1] * x[2], x[2] * y[2])
RNeg(x) == <<-x[1], x[2]>>
RMul(x, y) == Rat(x[1] * y[1], x[2] * y[2])
RDiv(x, y) == Rat(x[1] * y[2], x[2] * y[1])
RGeq0(x) == x[1] >= 0

Size(v) == Cardinality(DOMAIN v)
Vec(n, S) == [0 .. n - 1 -> S]
Mat(m, n, S) == [0 .. m - 1 -> Vec(n, S)]
Reals(S) == {ToReal(x) : x \in S}

\* abs(v).any() over the indices from..n-1 of v
AnyFrom(v, from, n) == \E idx \in from .. n - 1 : v[idx] # Zero
Any(v) == AnyFrom(v, 0, Size(v))
Column(M, col) == [r \in DOMAIN M |-> M[r][col]]

\* ------------------------------------------------- check_eliminatibility
\* for i in range(n_elig): if g[i] != 0: ...   (the first such i, or None)
RECURSIVE FirstCandidate(_, _, _)
FirstCandidate(row, i, window) ==
  IF i >= window THEN None
  ELSE IF row[i] # Zero THEN i
  ELSE FirstCandidate(row, i + 1, window)

\* j = i+1; while j < n and g[j] == 0: j += 1
RECURSIVE ScanZeros(_, _, _)
ScanZeros(row, j, n) ==
  IF j < n /\ row[j] = Zero THEN ScanZeros(row, j + 1, n) ELSE j

\* The n_elig=None default: the window is the whole row.
Window(row, window) == IF window = None THEN Size(row) ELSE window

\* if not allow_nonzero_b and h != 0: return None, None
\* (NoRhsGuard: the variant without this test)
NoRhsGuard(rhs, allow) == FALSE
RhsGuard(rhs, allow) == ~allow /\ rhs # Zero

\* elif not abs(g[j+1:]).any()
\* (AlwaysClean: the variant that does not look past j)
AlwaysClean(row, j) == TRUE
NothingAfter(row, j) == ~AnyFrom(row, j + 1, Size(row))

check_eliminatibility(row, rhs, window, allow) ==
  LET n == Size(row)
      w == Window(row, window)
  IN  IF RhsGuard(rhs, allow) THEN <<None, None>>
      ELSE LET i == FirstCandidate(row, 0, w)
           IN  IF i = None THEN <<None, None>>
               ELSE LET j == ScanZeros(row, i + 1, n)
                    IN  IF j = n THEN <<i, None>>
                        ELSE IF NothingAfter(row, j) THEN <<i, j>>
                        ELSE <<None, None>>

\* ------------------------------------------ simplify_sedumi_model, Pass 1
\* The window handed to check_eliminatibility: n_elig=n_free, n_free = K['f'].
\* (WholeRowWindow: the variant that leaves n_elig at its default)
WholeRowWindow(Kd, n_vars) == n_vars
EligWindow(Kd, n_vars) == Kd.f

\* b[:, 0] += -factor*A[:, i]
SubstituteRhs(bv, M, i, factor) ==
  [r \in DOMAIN bv |-> RAdd(bv[r], RMul(RNeg(factor), M[r][i]))]

\* offset += -factor*c[0, i]
AccumulateOffset(off, factor, ci) == RAdd(off, RMul(RNeg(factor), ci))

\* A[:, j] += -factor*A[:, i]
FoldColumn(M, i, j, factor) ==
  [r \in DOMAIN M |->
     [M[r] EXCEPT ![j] = RAdd(M[r][j], RMul(RNeg(factor), M[r][i]))]]

\* c[0, j] += -factor*c[0, i]
FoldCost(cv, i, j, factor) ==
  [cv EXCEPT ![j] = RAdd(cv[j], RMul(RNeg(factor), cv[i]))]

\* A[:, i] *= 0.   (KeepColumn: the variant that leaves the column in place)
KeepColumn(M, i) == M
ZeroColumn(M, i) == [r \in DOMAIN M |-> [M[r] EXCEPT ![i] = RMul(M[r][i], Zero)]]

\* c[0, i] *= 0.
ZeroCost(cv, i) == [cv EXCEPT ![i] = RMul(cv[i], Zero)]

\* Lines 165-180 on the frame st = [A, b, c, offset, elim]: row k eliminates
\* variable i, folding it into j when j is not None.  The arrays of st are the
\* objects the caller passed: every update is in place.
Fold(st, i, j, factor) ==
  IF j # None
  THEN [st EXCEPT !.A = FoldColumn(st.A, i, j, factor),
                  !.c = FoldCost(st.c, i, j, factor)]
  ELSE st
Substitute(st, i, factor) ==
  [st EXCEPT !.b = SubstituteRhs(st.b, st.A, i, factor),
             !.offset = AccumulateOffset(st.offset, factor, st.c[i])]
ZeroOut(st, k, i) ==
  [st EXCEPT !.A = ZeroColumn(st.A, i), !.c = ZeroCost(st.c, i),
             !.elim = Append(st.elim, <<k, i>>)]
Eliminate(st, k, i, j) ==
  ZeroOut(Fold(Substitute(st, i, RDiv(st.b[k], st.A[k][i])),
               i, j, IF j # None THEN RDiv(st.A[k][j], st.A[k][i]) ELSE Zero),
          k, i)

\* The body of "for ctr_k in range(n_ctr)", lines 159-180.
Matched(st, k, ij) == IF ij[1] = None THEN st ELSE Eliminate(st, k, ij[1], ij[2])
EliminateRow(st, k, Kd, allow) ==
  Matched(st, k, check_eliminatibility(st.A[k], st.b[k],
                                       EligWindow(Kd, Size(st.c)), allow))

\* ------------------------------------------ simplify_sedumi_model, Pass 2
Indices(n) == [idx \in 1 .. n |-> idx - 1]

free_and_deletable(cv, Kd, col) == col < Kd.f /\ cv[col] = Zero
nneg_and_deletable(cv, Kd, col) ==
  col >= Kd.f /\ col < Kd.f + Kd.l /\ RGeq0(cv[col])

DeletedFree(M, cv, Kd, col) ==
  free_and_deletable(cv, Kd, col) /\ ~Any(Column(M, col))
DeletedNneg(M, cv, Kd, col) ==
  /\ ~DeletedFree(M, cv, Kd, col)
  /\ nneg_and_deletable(cv, Kd, col) /\ ~Any(Column(M, col))

ColsToKeep(M, cv, Kd) ==
  LET keep(col) == ~DeletedFree(M, cv, Kd, col) /\ ~DeletedNneg(M, cv, Kd, col)
  IN  SelectSeq(Indices(Size(cv)), keep)
NDeletedF(M, cv, Kd) ==
  Cardinality({col \in DOMAIN cv : DeletedFree(M, cv, Kd, col)})
NDeletedL(M, cv, Kd) ==
  Cardinality({col \in DOMAIN cv : DeletedNneg(M, cv, Kd, col)})

\* if b[row, 0] == 0 and not abs(A[row, :]).any(): pass
\* (ZeroCoefficients: the variant that does not look at b)
ZeroCoefficients(M, bv, row) == ~Any(M[row])
TrivialRow(M, bv, row) == bv[row] = Zero /\ ~Any(M[row])

RowsToKeep(M, bv) ==
  LET keep(row) == ~TrivialRow(M, bv, row)
  IN  SelectSeq(Indices(Size(bv)), keep)

\* ---------------------------------------- simplify_sedumi_model, part two
\* M[np.ix_(rows, cols)]: a new array of the chosen rows and columns.
Ix(M, rows, cols) ==
  [r \in 0 .. Len(rows) - 1 |->
     [col \in 0 .. Len(cols) - 1 |-> M[rows[r + 1]][cols[col + 1]]]]
IxVec(v, idxs) == [p \in 0 .. Len(idxs) - 1 |-> v[idxs[p + 1]]]

\* assert len(cols_to_keep) + n_deleted_f + n_deleted_l
\* (SurvivorAssert: the variant that counts the kept columns only)
SurvivorAssert(kept, ndf, ndl) == Len(kept) # 0
DimAssert(kept, ndf, ndl) == Len(kept) + ndf + ndl # 0

KOut(Kd, ndf, ndl) == [f |-> Kd.f - ndf, l |-> Kd.l - ndl, s |-> Kd.s]

\* The tuple returned at line 222.
Returned(M, bv, cv, Kd, off, rows, cols, ndf, ndl) ==
  [A |-> Ix(M, rows, cols), b |-> IxVec(bv, rows), c |-> IxVec(cv, cols),
   K |-> KOut(Kd, ndf, ndl), offset |-> off]

\* ------------------------------------------------------- the three calls
\* Variables of a call that is not the one under study stay at these values.
ElimIdle ==
  /\ g = <<>> /\ h = Zero /\ n_elig = None /\ g_allow = FALSE
  /\ g_ret = <<>> /\ g_pc = "idle"
SimpIdle ==
  /\ A = <<>> /\ b = <<>> /\ c = <<>> /\ K = [f |-> 0, l |-> 0, s |-> <<>>]
  /\ allow_nonzero_b = FALSE /\ offset = Zero /\ ctr_k = 0
  /\ cols_to_keep = <<>> /\ rows_to_keep = <<>>
  /\ n_deleted_f = 0 /\ n_deleted_l = 0
  /\ pc = "idle" /\ ret = <<>> /\ arg = <<>> /\ elim = <<>>
  /\ call = 0 /\ first = <<>>
MakeIdle ==
  /\ problem_data = <<>> /\ simplify = FALSE
  /\ A_star = <<>> /\ b_star = <<>> /\ c_star = <<>> /\ K_star = <<>>
  /\ obj_cst = <<>> /\ m_pc = "idle" /\ m_ret = <<>> /\ pd0 = <<>>

\* ---- check_eliminatibility(g, h, n_elig, allow_nonzero_b)
InitElim ==
  /\ \E n \in 0 .. MaxLen :
       /\ g \in Vec(n, Reals(0 .. MaxCoef))
       /\ n_elig \in (0 .. n) \cup {None}
  /\ h \in Reals(0 .. MaxRhs)
  /\ g_allow \in BOOLEAN
  /\ g_ret = <<>>
  /\ g_pc = "call"
  /\ SimpIdle /\ MakeIdle

CheckCall ==
  /\ g_pc = "call"
  /\ g_ret' = check_eliminatibility(g, h, n_elig, g_allow)
  /\ g_pc' = "done"
  /\ UNCHANGED <<g, h, n_elig, g_allow, simpVars, makeVars>>

NextElim == CheckCall
SpecElim == InitElim /\ [][NextElim]_vars

\* ---- simplify_sedumi_model(A, b, c, K, allow_nonzero_b)
\* The cone descriptors of a problem of n variables: n = f + l + sum of s*s.
Cones(n) ==
  {[f |-> fl[1], l |-> fl[2], s |-> [blk \in 1 .. n - fl[1] - fl[2] |-> 1]] :
     fl \in {x \in (0 .. n) \X (0 .. n) : x[1] + x[2] <= n}}

\* Entry of the function: lines 137-154 have run.
Enter(M, bv, cv, Kd, allow, nth) ==
  /\ A = M /\ b = bv /\ c = cv /\ K = Kd
  /\ allow_nonzero_b = allow
  /\ arg = [A |-> M, b |-> bv, c |-> cv, K |-> Kd]
  /\ offset = Zero /\ ctr_k = 0
  /\ cols_to_keep = <<>> /\ rows_to_keep = <<>>
  /\ n_deleted_f = 0 /\ n_deleted_l = 0
  /\ pc = "pass1" /\ ret = <<>> /\ elim = <<>>
  /\ call = nth

InitSimp ==
  /\ \E m \in 0 .. MaxRows, n \in 0 .. MaxCols :
       \E M \in Mat(m, n, Reals(0 .. MaxCoef)),
          bv \in Vec(m, Reals(0 .. MaxRhs)),
          cv \in Vec(n, Reals((-MaxCost) .. MaxCost)),
          Kd \in Cones(n), allow \in BOOLEAN :
            Enter(M, bv, cv, Kd, allow, 1)
  /\ first = <<>>
  /\ ElimIdle /\ MakeIdle

n_ctr == Size(b)
n_vars == Size(c)

\* One iteration of the loop of Pass 1, lines 158-180.
Pass1Step ==
  /\ pc = "pass1" /\ ctr_k < n_ctr
  /\ \E st \in {EliminateRow([A |-> A, b |-> b, c |-> c, offset |-> offset,
                                elim |-> elim], ctr_k, K, allow_nonzero_b)} :
       /\ A' = st.A /\ b' = st.b /\ c' = st.c
       /\ offset' = st.offset /\ elim' = st.elim
  /\ ctr_k' = ctr_k + 1
  /\ UNCHANGED <<K, allow_nonzero_b, cols_to_keep, rows_to_keep,
                 n_deleted_f, n_deleted_l, pc, ret, arg, call, first,
                 elimVars, makeVars>>

\* Pass 2, lines 183-209: the lists of what survives.
Pass2 ==
  /\ pc = "pass1" /\ ctr_k = n_ctr
  /\ cols_to_keep' = ColsToKeep(A, c, K)
  /\ n_deleted_f' = NDeletedF(A, c, K)
  /\ n_deleted_l' = NDeletedL(A, c, K)
  /\ rows_to_keep' = RowsToKeep(A, b)
  /\ pc' = "part2"
  /\ UNCHANGED <<A, b, c, K, allow_nonzero_b, offset, ctr_k, ret, arg, elim,
                 call, first, elimVars, makeVars>>

\* Part two, lines 215-222: new arrays, the assertion, the return.
PartTwo ==
  /\ pc = "part2"
  /\ IF DimAssert(cols_to_keep, n_deleted_f, n_deleted_l)
     THEN /\ ret' = <<Returned(A, b, c, K, offset, rows_to_keep, cols_to_keep,
                               n_deleted_f, n_deleted_l)>>
          /\ pc' = "done"
     ELSE /\ ret' = <<>>
          /\ pc' = "AssertionError"
  /\ UNCHANGED <<A, b, c, K, allow_nonzero_b, offset, ctr_k, cols_to_keep,
                 rows_to_keep, n_deleted_f, n_deleted_l, arg, elim, call, first,
                 elimVars, makeVars>>

\* The caller hands the first call's result to a second call.
CallAgain ==
  /\ pc = "done" /\ call = 1
  /\ first' = ret
  /\ A' = ret[1].A /\ b' = ret[1].b /\ c' = ret[1].c /\ K' = ret[1].K
  /\ allow_nonzero_b' \in BOOLEAN
  /\ arg' = [A |-> ret[1].A, b |-> ret[1].b, c |-> ret[1].c, K |-> ret[1].K]
  /\ offset' = Zero /\ ctr_k' = 0
  /\ cols_to_keep' = <<>> /\ rows_to_keep' = <<>>
  /\ n_deleted_f' = 0 /\ n_deleted_l' = 0
  /\ pc' = "pass1" /\ ret' = <<>> /\ elim' = <<>>
  /\ call' = 2
  /\ UNCHANGED <<elimVars, makeVars>>

NextSimp == Pass1Step \/ Pass2 \/ PartTwo \/ CallAgain
SpecSimp == InitSimp /\ [][NextSimp]_vars


\* ------------------------------------------- properties of the simplifier
Finished == pc \in {"done", "AssertionError"}
Pruned == pc \in {"part2", "done", "AssertionError"}
InSeq(x, sq) == \E p \in 1 .. Len(sq) : sq[p] = x

\* A row a*x_i = d: coefficient i is its only nonzero one.
PinRow(M, k, i) ==
  M[k][i] # Zero /\ \A col \in DOMAIN M[k] : col # i => M[k][col] = Zero
EveryVarPinned(M, cv, Kd) ==
  /\ Kd.f = Size(cv)
  /\ \A i \in DOMAIN cv : \E k \in DOMAIN M : PinRow(M, k, i)
PinnedPoint(M, bv, cv) ==
  [i \in DOMAIN cv |->
     LET k == CHOOSE r \in DOMAIN M : PinRow(M, r, i)
     IN  RDiv(bv[k], M[k][i])]
RECURSIVE Dot(_, _, _)
Dot(u, v, n) ==
  IF n = 0 THEN Zero ELSE RAdd(Dot(u, v, n - 1), RMul(u[n - 1], v[n - 1]))
\* Every variable is pinned and the pinned point satisfies every row.
PinnedFeasible(M, bv, cv, Kd) ==
  /\ EveryVarPinned(M, cv, Kd)
  /\ \A k \in DOMAIN bv : Dot(M[k], PinnedPoint(M, bv, cv), Size(cv)) = bv[k]
\* The optimum of such a problem: the objective at the pinned point.
PinnedOpt(M, bv, cv) == Dot(cv, PinnedPoint(M, bv, cv), Size(cv))

\* C1: on a problem whose every (free) variable is pinned by a row a*x_i = d
\* and which is feasible, the reduced problem is of the same kind and
\* optimum(original) = optimum(reduced) + offset, for either allow_nonzero_b.
C1_Equivalence ==
  (pc = "done" /\ call = 1 /\ PinnedFeasible(arg.A, arg.b, arg.c, arg.K)) =>
    /\ PinnedFeasible(ret[1].A, ret[1].b, ret[1].c, ret[1].K)
    /\ PinnedOpt(arg.A, arg.b, arg.c)
         = RAdd(PinnedOpt(ret[1].A, ret[1].b, ret[1].c), ret[1].offset)

\* C2: with allow_nonzero_b=False the offset is 0 at every step of the call and
\* in the returned tuple, whatever rows were eliminated.
C2_OffsetZero ==
  (pc # "idle" /\ ~allow_nonzero_b) =>
    /\ offset = Zero
    /\ (pc = "done" => ret[1].offset = Zero)
C2_Witness ==
  /\ pc = "done" /\ ~allow_nonzero_b /\ Len(elim) = 2
  /\ \E p \in 1 .. 2 : arg.c[elim[p][2]] # Zero

\* C3: after the call the arrays the caller passed hold the values they held
\* when the call was made.
C3_CallerUntouched ==
  Finished => (A = arg.A /\ b = arg.b /\ c = arg.c)

C7_EliminatedStaysGone ==
  /\ \A p \in 1 .. Len(elim) :
       LET k == elim[p][1]
           i == elim[p][2]
       IN  /\ i < K.f
           /\ ~Any(A[k]) /\ b[k] = Zero
           /\ ~Any(Column(A, i)) /\ c[i] = Zero
           /\ \A q \in 1 .. Len(elim) : q # p => elim[q][2] # i
           /\ Pruned => (~InSeq(k, rows_to_keep) /\ ~InSeq(i, cols_to_keep))
  /\ pc = "done" =>
       /\ Size(ret[1].b) <= Size(arg.b) - Len(elim)
       /\ Size(ret[1].A) <= Size(arg.A) - Len(elim)
       /\ ret[1].K.f <= arg.K.f - Len(elim)
C7_Witness ==
  /\ pc = "done" /\ Len(elim) = 2 /\ allow_nonzero_b
  /\ \E r \in DOMAIN arg.b : arg.b[r] # Zero
  /\ \E r \in DOMAIN arg.A : \A col \in DOMAIN arg.A[r] : arg.A[r][col] # Zero

\* C8: a row is absent from the output iff at the end of Pass 1 all its
\* coefficients and its right-hand side are zero; the kept rows appear in
\* order, so every row 0 = nonzero is in the output.
C8_OnlyTrivialRowsDropped ==
  /\ Pruned =>
       \A row \in DOMAIN b :
         ~InSeq(row, rows_to_keep) <=>
           (b[row] = Zero /\ \A col \in DOMAIN A[row] : A[row][col] = Zero)
  /\ pc = "done" =>
       /\ DOMAIN ret[1].b = 0 .. Len(rows_to_keep) - 1
       /\ DOMAIN ret[1].A = DOMAIN ret[1].b
       /\ \A p \in 1 .. Len(rows_to_keep) :
            /\ ret[1].b[p - 1] = b[rows_to_keep[p]]
            /\ \A q \in 1 .. Len(cols_to_keep) :
                 ret[1].A[p - 1][q - 1] = A[rows_to_keep[p]][cols_to_keep[q]]
            /\ p > 1 => rows_to_keep[p - 1] < rows_to_keep[p]
\* A row that elimination turned into 0 = nonzero, kept in the output.
C8_Witness ==
  /\ pc = "done" /\ elim # <<>>
  /\ \E row \in DOMAIN b :
       /\ Any(arg.A[row]) /\ ~Any(A[row]) /\ b[row] # Zero
       /\ InSeq(row, rows_to_keep)

\* No row of the first call's output is matched by check_eliminatibility with
\* window K'.f, under the flag the second call is made with.
NoEliminableRow ==
  \A k \in DOMAIN first[1].b :
    check_eliminatibility(first[1].A[k], first[1].b[k], first[1].K.f,
                          allow_nonzero_b)[1] = None
SecondCallUnchanged ==
  /\ pc = "done"
  /\ ret[1].A = first[1].A /\ ret[1].b = first[1].b /\ ret[1].c = first[1].c
  /\ ret[1].K = first[1].K
  /\ ret[1].offset = Zero

CvxMat(tc, nr, nc, S) ==
  {[tc |-> tc, size |-> <<nr, nc>>, at |-> M] :
     M \in Mat(nr, nc, IF tc = "i" THEN S ELSE Reals(S))}

\* cvxmat(1.*M): a new dense matrix of doubles.
ToDouble(M) ==
  [tc |-> "d", size |-> M.size,
   at |-> [r \in DOMAIN M.at |->
             [col \in DOMAIN M.at[r] |->
                IF M.tc = "i" THEN ToReal(M.at[r][col]) ELSE M.at[r][col]]]]

\* M.T
Transpose(M) ==
  [tc |-> M.tc, size |-> <<M.size[2], M.size[1]>>,
   at |-> [col \in 0 .. M.size[2] - 1 |->
             [r \in 0 .. M.size[1] - 1 |-> M.at[r][col]]]]

\* len(M) of a cvxopt matrix: the number of its entries.
CvxLen(M) == M.size[1] * M.size[2]

\* problem_data_prep assigns into the mapping it was given and returns it.
problem_data_prep(pd) ==
  [pd EXCEPT !.A = ToDouble(pd.A), !.b = ToDouble(pd.b),
             !.G = ToDouble(pd.G), !.h = ToDouble(pd.h),
             !.c = Transpose(ToDouble(pd.c))]

RECURSIVE SumSquares(_)
SumSquares(sq) ==
  IF sq = <<>> THEN 0 ELSE Head(sq) * Head(sq) + SumSquares(Tail(sq))

\* The expansion step, lines 72-112.
Expansion(pd) ==
  LET nx == CvxLen(pd.c)
      ni == pd.dims.l
      ne == CvxLen(pd.b)
      num_sdp_vars == SumSquares(pd.dims.s)
      num_sedumi_vars == nx + ni + num_sdp_vars
      nrows == ne + ni + num_sdp_vars
      cell(r, col) ==
        IF col < nx
          THEN IF r < ne THEN pd.A.at[r][col] ELSE pd.G.at[r - ne][col]
          ELSE IF r >= ne /\ r - ne = col - nx THEN ToReal(1) ELSE Zero
  IN  [A |-> [r \in 0 .. nrows - 1 |->
                [col \in 0 .. num_sedumi_vars - 1 |-> cell(r, col)]],
       b |-> [r \in 0 .. nrows - 1 |->
                IF r < ne THEN pd.b.at[r][0] ELSE pd.h.at[r - ne][0]],
       c |-> [col \in 0 .. num_sedumi_vars - 1 |->
                IF col < nx THEN pd.c.at[0][col] ELSE Zero],
       K |-> [f |-> nx, l |-> pd.dims.l, s |-> pd.dims.s]]

\* simplify_sedumi_model as one call: <<the returned tuple>>, or <<>> when
\* its assertion fails.
RECURSIVE Pass1(_, _, _, _)
Pass1(st, k, Kd, allow) ==
  IF k >= Size(st.b) THEN st
  ELSE Pass1(EliminateRow(st, k, Kd, allow), k + 1, Kd, allow)

PartTwoOf(st, Kd, rows, cols, ndf, ndl) ==
  IF DimAssert(cols, ndf, ndl)
  THEN <<Returned(st.A, st.b, st.c, Kd, st.offset, rows, cols, ndf, ndl)>>
  ELSE <<>>
Pass2Of(st, Kd) ==
  PartTwoOf(st, Kd, RowsToKeep(st.A, st.b), ColsToKeep(st.A, st.c, Kd),
            NDeletedF(st.A, st.c, Kd), NDeletedL(st.A, st.c, Kd))
simplify_sedumi_model(M, bv, cv, Kd, allow) ==
  Pass2Of(Pass1([A |-> M, b |-> bv, c |-> cv, offset |-> Zero,
                 elim |-> <<>>], 0, Kd, allow), Kd)

MaxEq == 1        \* equality rows of a SourceProblem
MaxIneq == 1      \* inequality rows (dims.l) of a SourceProblem
MaxEntry == 1     \* A, b, c, h are drawn from 0..MaxEntry, G from -MaxEntry..0

InitMake ==
  /\ \E tc \in {"i", "d"}, nx \in 1 .. MaxCols, ne \in 0 .. MaxEq,
        ni \in 0 .. MaxIneq, sd \in {<<>>, <<1>>}, q \in {<<>>, <<1>>} :
       \E Am \in CvxMat(tc, ne, nx, 0 .. MaxEntry),
          bm \in CvxMat(tc, ne, 1, 0 .. MaxEntry),
          cm \in CvxMat(tc, nx, 1, 0 .. MaxEntry),
          Gm \in CvxMat(tc, ni + SumSquares(sd), nx, (-MaxEntry) .. 0),
          hm \in CvxMat(tc, ni + SumSquares(sd), 1, 0 .. MaxEntry) :
            problem_data = [A |-> Am, b |-> bm, c |-> cm, G |-> Gm, h |-> hm,
                            dims |-> [l |-> ni, q |-> q, s |-> sd]]
  /\ pd0 = problem_data
  /\ simplify \in BOOLEAN
  /\ A_star = <<>> /\ b_star = <<>> /\ c_star = <<>> /\ K_star = <<>>
  /\ obj_cst = <<>>      \* not assigned yet
  /\ m_pc = "prep" /\ m_ret = <<>>
  /\ ElimIdle /\ SimpIdle

\* Line 68.
MPrep ==
  /\ m_pc = "prep"
  /\ problem_data' = problem_data_prep(problem_data)
  /\ m_pc' = "assert_q"
  /\ UNCHANGED <<simplify, A_star, b_star, c_star, K_star, obj_cst, m_ret,
                 pd0, elimVars, simpVars>>

\* Lines 69-70: assert not dims['q'].
MAssertQ ==
  /\ m_pc = "assert_q"
  /\ m_pc' = IF problem_data.dims.q # <<>> THEN "AssertionError" ELSE "expand"
  /\ UNCHANGED <<problem_data, simplify, A_star, b_star, c_star, K_star,
                 obj_cst, m_ret, pd0, elimVars, simpVars>>

\* Lines 72-112.
MExpand ==
  /\ m_pc = "expand"
  /\ \E e \in {Expansion(problem_data)} :
       A_star' = e.A /\ b_star' = e.b /\ c_star' = e.c /\ K_star' = e.K
  /\ m_pc' = "simplify"
  /\ UNCHANGED <<problem_data, simplify, obj_cst, m_ret, pd0, elimVars,
                 simpVars>>

\* Lines 113-118: if simplify: ... = simplify_sedumi_model(...,
\* allow_nonzero_b=False).
MSimplify ==
  /\ m_pc = "simplify"
  /\ IF simplify
     THEN \E r \in {simplify_sedumi_model(A_star, b_star, c_star, K_star, FALSE)} :
              IF r = <<>>
              THEN /\ m_pc' = "AssertionError"
                   /\ UNCHANGED <<A_star, b_star, c_star, K_star, obj_cst>>
              ELSE /\ A_star' = r[1].A /\ b_star' = r[1].b /\ c_star' = r[1].c
                   /\ K_star' = r[1].K /\ obj_cst' = <<r[1].offset>>
                   /\ m_pc' = "assert_cst"
     ELSE /\ m_pc' = "assert_cst"
          /\ UNCHANGED <<A_star, b_star, c_star, K_star, obj_cst>>
  /\ UNCHANGED <<problem_data, simplify, m_ret, pd0, elimVars, simpVars>>

\* Line 119: assert obj_cst == 0; reading obj_cst before any assignment
\* raises UnboundLocalError.
MAssertCst ==
  /\ m_pc = "assert_cst"
  /\ m_pc' = IF obj_cst = <<>> THEN "UnboundLocalError"
             ELSE IF obj_cst[1] # Zero THEN "AssertionError"
             ELSE "final"
  /\ UNCHANGED <<problem_data, simplify, A_star, b_star, c_star, K_star,
                 obj_cst, m_ret, pd0, elimVars, simpVars>>

\* Line 120: return simplify_sedumi_model(A_star, b_star, c_star, K).
MFinal ==
  /\ m_pc = "final"
  /\ m_ret' = simplify_sedumi_model(A_star, b_star, c_star, K_star, FALSE)
  /\ m_pc' = IF m_ret' = <<>> THEN "AssertionError" ELSE "done"
  /\ UNCHANGED <<problem_data, simplify, A_star, b_star, c_star, K_star,
                 obj_cst, pd0, elimVars, simpVars>>

NextMake == MPrep \/ MAssertQ \/ MExpand \/ MSimplify \/ MAssertCst \/ MFinal
SpecMake == InitMake /\ [][NextMake]_vars

MFinished == m_pc \in {"done", "AssertionError", "UnboundLocalError"}

\* The numeric value of an entry, whatever the typecode.
ValueAt(M, r, col) ==
  IF M.tc = "i" THEN ToReal(M.at[r][col]) ELSE M.at[r][col]
SameValues(M, N) ==
  /\ M.size = N.size
  /\ \A r \in 0 .. M.size[1] - 1, col \in 0 .. M.size[2] - 1 :
       ValueAt(M, r, col) = ValueAt(N, r, col)

\* C5: after the call, returned or failed on dims.q, the caller's problem_data
\* holds the values (shape and entries) it held before, and a call that fails
\* returns nothing.
C5_ProblemDataUntouched ==
  MFinished =>
    /\ SameValues(problem_data.A, pd0.A) /\ SameValues(problem_data.b, pd0.b)
    /\ SameValues(problem_data.c, pd0.c) /\ SameValues(problem_data.G, pd0.G)
    /\ SameValues(problem_data.h, pd0.h) /\ problem_data.dims = pd0.dims
    /\ (m_pc # "done" => m_ret = <<>>)

\* C10: on an SOC-free problem_data, the call with simplify=False completes
\* and returns: the assertion on obj_cst reads an assigned value.
C10_NoSimplifyReturns ==
  (MFinished /\ ~simplify /\ pd0.dims.q = <<>>) => m_pc = "done"

\* ------------------------------------ properties of check_eliminatibility
Nonzeros(row) == {i \in DOMAIN row : row[i] # Zero}
Least(S) == CHOOSE x \in S : \A y \in S : x <= y
Greatest(S) == CHOOSE x \in S : \A y \in S : y <= x

\* The reference: one or two nonzero coefficients, the first inside the window.
Reference(row, rhs, window, allow) ==
  LET nz == Nonzeros(row)
      w == IF window = None THEN Size(row) ELSE window
  IN  IF ~allow /\ rhs # Zero THEN <<None, None>>
      ELSE IF Cardinality(nz) = 1 /\ Least(nz) < w THEN <<Least(nz), None>>
      ELSE IF Cardinality(nz) = 2 /\ Least(nz) < w
        THEN <<Least(nz), Greatest(nz)>>
      ELSE <<None, None>>

\* C6: check_eliminatibility returns what the reference does, for every row,
\* right-hand side, window n_elig <= len(g) and flag.
C6_MatchesReference ==
  g_pc = "done" => g_ret = Reference(g, h, n_elig, g_allow)
\* A row of three nonzero coefficients whose first is eligible, and a match.
C6_Witness ==
  /\ g_pc = "done" /\ g_ret = <<None, None>>
  /\ Cardinality(Nonzeros(g)) = 3 /\ n_elig # None /\ n_elig > Least(Nonzeros(g))
  /\ n_elig > Greatest(Nonzeros(g)) /\ h = Zero

====
